---- MODULE Spec2Model ----
(***************************************************************************)
(* A model of the Java-to-Bedrock geometry converter                       *)
(* (src/geometry/converter.js, class JavaToBedrockConverter).              *)
(*                                                                         *)
(* Numbers.  A JavaScript number v is modelled by the integer v * One,     *)
(* where One == RoundDigits * Sub: the model resolves Sub steps below the  *)
(* fourth decimal, so that rounding to four decimals (roundit) is a real   *)
(* conversion and not the identity.  -0 and 0 are one value: the code only *)
(* compares numbers through JSON.stringify (which prints -0 as 0) or ===.  *)
(*                                                                         *)
(* Objects.  A JavaScript object is a record; an optional property is a    *)
(* field that may be missing from the record's DOMAIN.  null is the record *)
(* NULL and a thrown exception is a record [throw |-> message].            *)
(*                                                                         *)
(* Strings are TLA+ strings, taken apart with Len and SubSeq.              *)
(***************************************************************************)
EXTENDS Integers, Sequences, FiniteSets, TLC

\* the fields of the converter instance, and the call it is serving
VARIABLES textureWidth, textureHeight, spritesheetData, call

\* main(): the model files found, the position of its loops, its counters and
\* lists, the files it has written, created and left on disk, and what it
\* has printed
VARIABLES modelsByNamespace, pc, nsIndex, fileIndex,
          successCount, failCount, skippedCount, failedModels,
          outputFiles, textureFiles, createdFiles, processedPaths, console

converter == <<textureWidth, textureHeight, spritesheetData, call>>

driver == <<modelsByNamespace, pc, nsIndex, fileIndex,
            successCount, failCount, skippedCount, failedModels,
            outputFiles, textureFiles, createdFiles, processedPaths, console>>

vars == <<converter, driver>>

-----------------------------------------------------------------------------
(* Bounds of the model *)

\* steps the model resolves below the fourth decimal place
Sub == 10
\* longest element list handed to groupCubesByRotation / convert
MaxElems == 3
\* most model files in the pack main() is run on
MaxFiles == 2

-----------------------------------------------------------------------------
(* Numbers *)

\* the 10000 of  Math.round(val * 10000) / 10000
RoundDigits == 10000

\* the number 1
One == RoundDigits * Sub

Num(n) == n * One

\* n + 1/2, e.g. Half(22) is 22.5
Half(n) == (2 * n + 1) * (One \div 2)

\* const roundit = (val) => Math.round(val * 10000) / 10000;
\* Math.round(x) is floor(x + 0.5)
roundit(val) == ((2 * val + Sub) \div (2 * Sub)) * Sub

\* roundit of the rational (a + b / 125) / den, den > 0: the atlas arithmetic
\* divides by the atlas size and multiplies by 0.016 = 2 / 125.  The quotient
\* is taken before the fraction is looked at, to stay within TLC's integers.
rounditQ(a, b, den) ==
  LET q == a \div (den * Sub)
      r == a % (den * Sub)
  IN  (q + ((2 * (125 * r + b) + 125 * den * Sub) \div (250 * den * Sub))) * Sub

Max(a, b) == IF a >= b THEN a ELSE b
Min(a, b) == IF a <= b THEN a ELSE b

-----------------------------------------------------------------------------
(* Objects and strings *)

NULL == [null |-> TRUE]

Throw(msg) == [throw |-> msg]

\* what reading a property of undefined throws (javaModel.textures[...] with
\* no textures, line 18)
TypeError == Throw("TypeError: Cannot read properties of undefined")

IsThrow(v) == DOMAIN v = {"throw"}

Has(obj, field) == field \in DOMAIN obj

\* s.substring(i) with a 0-based index i
substring(s, i) == SubSeq(s, i + 1, Len(s))

CharAt(s, i) == SubSeq(s, i, i)

\* s.includes(t)
includes(s, t) == \E i \in 1..(Len(s) - Len(t) + 1) : SubSeq(s, i, i + Len(t) - 1) = t

\* s.endsWith(t)
endsWith(s, t) == Len(t) <= Len(s) /\ SubSeq(s, Len(s) - Len(t) + 1, Len(s)) = t

\* s.replace(/\\/g, '/')
RECURSIVE normalizeSeparators(_)
normalizeSeparators(s) ==
  IF Len(s) = 0 THEN s
  ELSE (IF CharAt(s, 1) = "\\" THEN "/" ELSE CharAt(s, 1))
         \o normalizeSeparators(substring(s, 1))

\* s.replace(/^[^:]+:/, ''): drops a leading "namespace:" of at least one
\* character before the first colon
stripNamespace(s) ==
  LET colons == {i \in 1..Len(s) : CharAt(s, i) = ":"}
      first == CHOOSE i \in colons : \A j \in colons : i <= j
  IN  IF colons = {} THEN s
      ELSE IF first = 1 THEN s
      ELSE substring(s, first)

\* s.split('/').pop()
lastSegment(s) ==
  LET slashes == {i \in 1..Len(s) : CharAt(s, i) = "/"}
      last == CHOOSE i \in slashes : \A j \in slashes : j <= i
  IN  IF slashes = {} THEN s ELSE substring(s, last)

-----------------------------------------------------------------------------------------------------------------------------------------------------
(* calculateUV: converter.js lines 15-97 *)

\* mutant: the pass-through result rounded like the atlas result
simpleUV_rounded(face) ==
  [uv      |-> <<roundit(face.uv[1]), roundit(face.uv[2])>>,
   uv_size |-> <<roundit(face.uv[3] - face.uv[1]), roundit(face.uv[4] - face.uv[2])>>]

\* the pass-through result of lines 23-26 and 60-63
simpleUV(face) ==
  [uv      |-> <<face.uv[1], face.uv[2]>>,
   uv_size |-> <<face.uv[3] - face.uv[1], face.uv[4] - face.uv[2]>>]

\* line 30: textureRef.replace(/^[^:]+:/, '').replace(/\\/g, '/')
cleanPathOf(textureRef) == normalizeSeparators(stripNamespace(textureRef))

\* the condition of the first loop, lines 38-41, on the normalized frame path
matchesNormalized(normalizedFramePath, cleanPath) ==
  \/ includes(normalizedFramePath, cleanPath \o ".png")
  \/ includes(normalizedFramePath, cleanPath \o "_cropped.png")
  \/ endsWith(normalizedFramePath, "/" \o cleanPath \o ".png")
  \/ endsWith(normalizedFramePath, "/" \o cleanPath \o "_cropped.png")

\* lines 35-41
matchesPath(framePath, cleanPath) ==
  matchesNormalized(normalizeSeparators(framePath), cleanPath)

\* the condition of the second loop, line 51 (framePath is not normalized)
matchesFilename(framePath, filename) ==
  \/ includes(framePath, filename \o ".png")
  \/ includes(framePath, filename \o "_cropped.png")

\* the least element of a non-empty set of indices, 0 for the empty set
firstOf(hits) ==
  IF hits = {} THEN 0 ELSE CHOOSE i \in hits : \A j \in hits : i <= j

\* first loop, lines 34-45: index of the frame it breaks at, 0 if none
firstByPath(frames, cleanPath) ==
  firstOf({i \in 1..Len(frames) : matchesPath(frames[i].path, cleanPath)})

\* second loop, lines 49-55
firstByFilename(frames, filename) ==
  firstOf({i \in 1..Len(frames) : matchesFilename(frames[i].path, filename)})

\* line 47: the second loop runs only if the first found nothing
orElse(byPath, byFilename) == IF byPath # 0 THEN byPath ELSE byFilename

findByCleanPath(frames, cleanPath) ==
  orElse(firstByPath(frames, cleanPath),
         firstByFilename(frames, lastSegment(cleanPath)))

\* lines 29-56: index in the frame table of textureData, 0 when it stays null
findTextureData(frames, textureRef) ==
  findByCleanPath(frames, cleanPathOf(textureRef))

\* mutant: Math.sign in place of the clamp to [-1, 1]
clampSign_signum(d, den) ==
  IF d > 0 THEN One * den ELSE IF d < 0 THEN -One * den ELSE 0

\* Math.max(-1, Math.min(1, d)) for d given as a numerator over den
clampSign(d, den) == Max(-One * den, Min(One * den, d))

\* mutant: the inset applied outwards (the two signs of 0.016 exchanged)
insetUV_outward(fn0, fn2, sign, atlasSize) ==
  <<rounditQ(fn0, -2 * sign, atlasSize), rounditQ(fn2 - fn0, 2 * sign, atlasSize)>>

\* lines 75-96 on one axis: <<uv, uv_size>> from the two mapped corners fn0
\* and fn2 and their difference's sign, all numerators over the atlas size:
\*   0.016 * xSign = (2 * xSign / 125)
insetUV(fn0, fn2, sign, atlasSize) ==
  <<rounditQ(fn0, 2 * sign, atlasSize), rounditQ(fn2 - fn0, -2 * sign, atlasSize)>>

\* lines 75-78: a corner as a numerator over the atlas size:
\*   ((u * frameW * 0.0625) + frameX) * (16 / atlasWidth)
\*     = (u * frameW + 16 * frameX) / atlasWidth
mapCorner(u, frameStart, frameSize) == u * frameSize + 16 * Num(frameStart)

signedUV(fn0, fn2, atlasSize) ==
  insetUV(fn0, fn2, clampSign(fn2 - fn0, atlasSize), atlasSize)

axisUV(u0, u1, frameStart, frameSize, atlasSize) ==
  signedUV(mapCorner(u0, frameStart, frameSize),
           mapCorner(u1, frameStart, frameSize), atlasSize)

\* lines 87-96
pairUV(x, y) == [uv |-> <<x[1], y[1]>>, uv_size |-> <<x[2], y[2]>>]

\* lines 66-96
atlasUV(face, textureData, meta) ==
  pairUV(axisUV(face.uv[1], face.uv[3], textureData.frame.x, textureData.frame.w,
                meta.size.w),
         axisUV(face.uv[2], face.uv[4], textureData.frame.y, textureData.frame.h,
                meta.size.h))

\* lines 58-96
uvOfFound(sd, face, found) ==
  IF found = 0 THEN simpleUV(face) ELSE atlasUV(face, sd.frames[found], sd.meta)

\* !textureRef for  textureRef = javaModel.textures[textureKey.substring(1)]:
\* the key is missing from the table (undefined) or maps to ''
textureRefMissing(key, textures) ==
  key \notin DOMAIN textures \/ textures[key] = ""

\* calculateUV(face, textureKey, javaModel) on a converter whose
\* this.spritesheetData is sd
calculateUV(sd, face, textureKey, javaModel) ==
  IF ~Has(face, "uv") THEN NULL
  ELSE IF ~Has(javaModel, "textures") THEN TypeError
  ELSE IF textureRefMissing(substring(textureKey, 1), javaModel.textures) THEN NULL
  ELSE IF sd = NULL \/ ~Has(sd, "frames") THEN simpleUV(face)
  ELSE uvOfFound(sd, face,
         findTextureData(sd.frames, javaModel.textures[substring(textureKey, 1)]))

-----------------------------------------------------------------------------
(* convertElement: converter.js lines 102-160 *)

\* mutant: the x origin re-based on the 'from' corner
originOf_fromCorner(from, to) ==
  <<roundit(-from[1] + Num(8)), roundit(from[2]), roundit(from[3] - Num(8))>>

\* lines 109-113
originOf(from, to) ==
  <<roundit(-to[1] + Num(8)), roundit(from[2]), roundit(from[3] - Num(8))>>

\* mutant: the extents left unrounded
sizeOf_unrounded(from, to) ==
  <<to[1] - from[1], to[2] - from[2], to[3] - from[3]>>

\* lines 115-119
sizeOf(from, to) ==
  <<roundit(to[1] - from[1]), roundit(to[2] - from[2]), roundit(to[3] - from[3])>>

\* lines 143-147 and 193-197
pivotOf(origin) ==
  <<roundit(-origin[1] + Num(8)), roundit(origin[2]), roundit(origin[3] - Num(8))>>

\* mutant: the z angle negated like the other two
rotationOf_negatedZ(angle, axis) ==
  <<IF axis = "x" THEN -angle ELSE 0,
    IF axis = "y" THEN -angle ELSE 0,
    IF axis = "z" THEN -angle ELSE 0>>

\* mutant: a value that is no axis is taken for z
rotationOf_defaultZ(angle, axis) ==
  <<IF axis = "x" THEN -angle ELSE 0,
    IF axis = "y" THEN -angle ELSE 0,
    IF axis = "x" \/ axis = "y" THEN 0 ELSE angle>>

\* mutant: the angle written on every axis, with the sign of each
rotationOf_allAxes(angle, axis) ==
  <<-angle, -angle, angle>>

\* lines 152-156 and 199-203
rotationOf(angle, axis) ==
  <<IF axis = "x" THEN -angle ELSE 0,
    IF axis = "y" THEN -angle ELSE 0,
    IF axis = "z" THEN angle ELSE 0>>

\* the faces for which line 128 calls calculateUV
facesWithTexture(element) ==
  IF Has(element, "faces")
    THEN {f \in DOMAIN element.faces : Has(element.faces[f], "texture")}
    ELSE {}

\* line 129 for every such face
calculatedUVs(sd, element, javaModel) ==
  [f \in facesWithTexture(element) |->
     calculateUV(sd, element.faces[f], element.faces[f].texture, javaModel)]

\* mutant: every result is stored, null or not
keepUVs_all(uvs) == uvs

\* lines 130-132: uvMap keeps the results that are not null
keepUVs(uvs) == [f \in {g \in DOMAIN uvs : uvs[g] # NULL} |-> uvs[f]]

\* lines 136-138
uvField(uvMap) == IF DOMAIN uvMap # {} THEN [uv |-> uvMap] ELSE <<>>

\* lines 142-157
rotationFields(element) ==
  IF Has(element, "rotation")
    THEN [pivot    |-> pivotOf(element.rotation.origin),
          rotation |-> rotationOf(element.rotation.angle, element.rotation.axis)]
    ELSE <<>>

\* lines 103-121
baseCube(element) ==
  [origin |-> originOf(element.from, element.to),
   size   |-> sizeOf(element.from, element.to)]

cubeOf(element, uvMap) ==
  IF \E f \in DOMAIN uvMap : IsThrow(uvMap[f]) THEN TypeError
  ELSE baseCube(element) @@ uvField(uvMap) @@ rotationFields(element)

convertElement(sd, element, javaModel) ==
  cubeOf(element, keepUVs(calculatedUVs(sd, element, javaModel)))

-----------------------------------------------------------------------------
(* groupCubesByRotation: converter.js lines 165-237 *)

\* mutant: the indices in decreasing order (unshift for push)
RECURSIVE inOrder_reversed(_, _)
inOrder_reversed(n, S) ==
  IF n = 0 THEN <<>>
  ELSE IF n \in S THEN <<n>> \o inOrder_reversed(n - 1, S) ELSE inOrder_reversed(n - 1, S)

\* the sequence, in increasing order, of the indices of 1..n in the set S
RECURSIVE inOrder(_, _)
inOrder(n, S) ==
  IF n = 0 THEN <<>>
  ELSE IF n \in S THEN Append(inOrder(n - 1, S), n) ELSE inOrder(n - 1, S)

\* lines 172-176: JSON.stringify({origin, angle, axis}); two keys are the same
\* string exactly when the three values are the same
rotationKey(rotation) == <<rotation.origin, rotation.angle, rotation.axis>>

\* mutant: no look-up of the key among the rotations already pushed
pushedRotations_noFind(elements) ==
  {i \in 1..Len(elements) : Has(elements[i], "rotation")}

\* lines 171-185: the elements whose rotation forEach pushes: those with a
\* rotation whose key no earlier element has
pushedRotations(elements) ==
  {i \in 1..Len(elements) :
     /\ Has(elements[i], "rotation")
     /\ ~\E j \in 1..(i - 1) :
           /\ Has(elements[j], "rotation")
           /\ rotationKey(elements[j].rotation) = rotationKey(elements[i].rotation)}

\* lines 179-184
rotationEntry(rotation) ==
  [key    |-> rotationKey(rotation),
   origin |-> rotation.origin,
   angle  |-> rotation.angle,
   axis   |-> rotation.axis]

rotationsAt(elements, order) ==
  [r \in 1..Len(order) |-> rotationEntry(elements[order[r]].rotation)]

\* lines 169-187: the unique source rotations, in the order forEach meets them
uniqueRotations(elements) ==
  rotationsAt(elements, inOrder(Len(elements), pushedRotations(elements)))

\* mutant: only the pivot is deleted from the copy
cubeWithoutPivot_pivotOnly(cube) ==
  [f \in DOMAIN cube \ {"pivot"} |-> cube[f]]

\* lines 211-213 and 229-231: { ...cube } without pivot and rotation
cubeWithoutPivot(cube) ==
  [f \in DOMAIN cube \ {"pivot", "rotation"} |-> cube[f]]

strippedAt(cubes, order) ==
  [k \in 1..Len(order) |-> cubeWithoutPivot(cubes[order[k]])]

\* lines 208-210: the test that puts cubes[idx] into the group (pivot, rotation)
inGroup(elements, cubes, idx, pivot, rotation) ==
  /\ Has(elements[idx], "rotation")
  /\ cubes[idx].rotation = rotation
  /\ cubes[idx].pivot = pivot

\* lines 205-216
groupCubes(elements, cubes, pivot, rotation) ==
  strippedAt(cubes,
    inOrder(Len(cubes),
      {idx \in 1..Len(cubes) : inGroup(elements, cubes, idx, pivot, rotation)}))

\* lines 218-222
groupWith(elements, cubes, pivot, rotation) ==
  [pivot    |-> pivot,
   rotation |-> rotation,
   cubes    |-> groupCubes(elements, cubes, pivot, rotation)]

\* lines 192-223: the group made for one entry of rotations
groupOf(elements, cubes, rot) ==
  groupWith(elements, cubes, pivotOf(rot.origin), rotationOf(rot.angle, rot.axis))

\* lines 192-223
groupsFor(elements, cubes, rotations) ==
  [g \in 1..Len(rotations) |-> groupOf(elements, cubes, rotations[g])]

\* lines 226-234
noPivotCubesOf(elements, cubes) ==
  strippedAt(cubes,
    inOrder(Len(cubes), {idx \in 1..Len(cubes) : ~Has(elements[idx], "rotation")}))

\* line 166: elements.map(el => this.convertElement(el, javaModel))
convertAll(sd, elements, javaModel) ==
  [idx \in 1..Len(elements) |-> convertElement(sd, elements[idx], javaModel)]

\* lines 168-236, given the cubes of line 166
groupConverted(elements, cubes) ==
  IF \E idx \in 1..Len(elements) : IsThrow(cubes[idx]) THEN TypeError
  ELSE [groups       |-> groupsFor(elements, cubes, uniqueRotations(elements)),
        noPivotCubes |-> noPivotCubesOf(elements, cubes)]

groupCubesByRotation(sd, elements, javaModel) ==
  groupConverted(elements, convertAll(sd, elements, javaModel))

-----------------------------------------------------------------------------
(* convert: converter.js lines 242-317 *)

\* lines 244-250: the texture size the call leaves in this.textureWidth/Height
textureSizeOf(sd, javaModel, width, height) ==
  IF sd # NULL /\ Has(sd, "meta") THEN <<sd.meta.size.w, sd.meta.size.h>>
  ELSE IF Has(javaModel, "texture_size")
    THEN <<javaModel.texture_size[1], javaModel.texture_size[2]>>
  ELSE <<width, height>>

\* mutant: only a missing element list is refused, not an empty one
noElements_missingOnly(javaModel) == ~Has(javaModel, "elements")

\* line 252
noElements(javaModel) ==
  ~Has(javaModel, "elements") \/ Len(javaModel.elements) = 0

\* mutant: the cubes field left out of the fourth bone when the list is empty
scaffoldBones_noEmptyCubes(noPivotCubes) ==
  << [name    |-> "campfire",
      binding |-> "c.item_slot == 'head' ? 'head' : q.item_slot_to_bone_name(c.item_slot)",
      pivot   |-> <<0, Num(8), 0>>],
     [name |-> "campfire_x", parent |-> "campfire", pivot |-> <<0, Num(8), 0>>],
     [name |-> "campfire_y", parent |-> "campfire_x", pivot |-> <<0, Num(8), 0>>],
     IF noPivotCubes = <<>>
       THEN [name |-> "campfire_z", parent |-> "campfire_y", pivot |-> <<0, Num(8), 0>>]
       ELSE [name |-> "campfire_z", parent |-> "campfire_y", pivot |-> <<0, Num(8), 0>>,
             cubes |-> noPivotCubes] >>

\* lines 266-288: the four fixed bones
scaffoldBones(noPivotCubes) ==
  << [name    |-> "campfire",
      binding |-> "c.item_slot == 'head' ? 'head' : q.item_slot_to_bone_name(c.item_slot)",
      pivot   |-> <<0, Num(8), 0>>],
     [name |-> "campfire_x", parent |-> "campfire", pivot |-> <<0, Num(8), 0>>],
     [name |-> "campfire_y", parent |-> "campfire_x", pivot |-> <<0, Num(8), 0>>],
     [name |-> "campfire_z", parent |-> "campfire_y", pivot |-> <<0, Num(8), 0>>,
      cubes |-> noPivotCubes] >>

\* mutant: the bone named by the 0-based index
rotationBone_zeroBased(group, index) ==
  [name     |-> "rot_" \o ToString(index),
   parent   |-> "campfire_z",
   pivot    |-> group.pivot,
   rotation |-> group.rotation,
   cubes    |-> group.cubes]

\* lines 291-299: the bone pushed for groups[index], index counted from 0
rotationBone(group, index) ==
  [name     |-> "rot_" \o ToString(index + 1),
   parent   |-> "campfire_z",
   pivot    |-> group.pivot,
   rotation |-> group.rotation,
   cubes    |-> group.cubes]

\* lines 266-299
bonesOf(groups, noPivotCubes) ==
  scaffoldBones(noPivotCubes)
    \o [g \in 1..Len(groups) |-> rotationBone(groups[g], g - 1)]

\* lines 301-316
documentOf(modelName, size, bones) ==
  [format_version |-> "1.21.0"] @@
  ("minecraft:geometry" :>
     << [description |->
           [identifier |-> "geometry." \o modelName,
            texture_width |-> size[1],
            texture_height |-> size[2],
            visible_bounds_width |-> Num(4),
            visible_bounds_height |-> Half(4),
            visible_bounds_offset |-> <<0, 3 * (One \div 4), 0>>],
         bones |-> bones] >>)

\* lines 260-316, given what groupCubesByRotation returned or threw
assemble(modelName, size, grouped) ==
  IF IsThrow(grouped) THEN grouped
  ELSE documentOf(modelName, size, bonesOf(grouped.groups, grouped.noPivotCubes))

\* what convert returns or throws, given the fields of this before the call
convert(sd, width, height, javaModel, modelName) ==
  IF noElements(javaModel) THEN Throw("No elements found in model")
  ELSE assemble(modelName, textureSizeOf(sd, javaModel, width, height),
                groupCubesByRotation(sd, javaModel.elements, javaModel))

-----
(* Inputs *)

Vec(x, y, z) == <<Num(x), Num(y), Num(z)>>

\* corner coordinates: whole numbers, values with digits below the fourth
\* decimal, a value half-way between two roundings, a negative coordinate
Corners ==
  { Vec(0, 0, 0),
    Vec(16, 16, 16),
    Vec(16, 0, 4),
    <<Num(4) + 1, Half(2), Num(12) + (Sub \div 2)>>,
    <<Num(-8), Num(24), Half(7) + (Sub - 1)>> }

RotationOrigins ==
  { Vec(8, 8, 8), <<Num(8) + 1, Num(8), Num(8)>>, <<0, Half(4), Num(16) + (Sub \div 2)>> }

\* the last angle has a digit below the fourth decimal
Angles == { 0, Half(22), Num(45), Num(-45), Num(30), Num(22) + 1 }

\* "w" is no axis of the source format
Axes == { "x", "y", "z", "w" }

Rotations == [origin : RotationOrigins, angle : Angles, axis : Axes]

UVs ==
  { <<0, 0, Num(8), Num(8)>>,
    <<Num(16), 0, 0, Num(16)>>,
    <<Num(2) + 1, Half(3), Num(10), Num(4)>>,
    <<Num(4), Num(4), Num(4), Num(12)>> }

TextureKeys == { "#0", "#1", "#2", "#3", "#4", "#5", "#9" }

\* a face is { uv?, texture? }
Faces ==
  [uv : UVs, texture : TextureKeys] \cup [uv : UVs] \cup [texture : {"#0"}]

\* the texture table: "m:b/sw", "b\\lsw" and "m:c/k" are packed in the atlas
\* below, "m:gone" and "sw" (a texture outside any directory) are not, "3"
\* maps to the empty string and "9" is no key
Textures ==
  ("0" :> "m:b/sw") @@ ("1" :> "b\\lsw") @@ ("2" :> "m:gone") @@ ("3" :> "")
    @@ ("4" :> "m:c/k") @@ ("5" :> "sw")

\* the documents' shapes but for their elements
ModelShells ==
  { [textures |-> Textures],
    [textures |-> Textures, texture_size |-> <<64, 32>>],
    [texture_size |-> <<64, 32>>] }

\* the Atlas Service's output: { frames: {path: {frame}}, meta: {size} }, the
\* frame table in Object.entries order; and one without a frame table
Atlases ==
  { [frames |-> << [path |-> "t/b/lsw.png", frame |-> [x |-> 0, y |-> 0, w |-> 16, h |-> 16]],
                   [path |-> "t\\b\\sw.png", frame |-> [x |-> 16, y |-> 0, w |-> 16, h |-> 32]],
                   [path |-> "t/an_cropped.png", frame |-> [x |-> 0, y |-> 16, w |-> 32, h |-> 16]],
                   [path |-> "t/c/k_cropped.png", frame |-> [x |-> 0, y |-> 32, w |-> 16, h |-> 16]],
                   [path |-> "t/c/k.png", frame |-> [x |-> 16, y |-> 32, w |-> 16, h |-> 16]] >>,
     meta |-> [size |-> [w |-> 32, h |-> 48]]],
    [meta |-> [size |-> [w |-> 128, h |-> 128]]] }

SomeFaces ==
  { [north |-> [uv |-> <<0, 0, Num(8), Num(8)>>, texture |-> "#0"],
     up    |-> [uv |-> <<Num(16), 0, 0, Num(16)>>, texture |-> "#9"]],
    [north |-> [uv |-> <<0, 0, Num(8), Num(8)>>, texture |-> "#2"],
     up    |-> [uv |-> <<Num(16), 0, 0, Num(16)>>]],
    [north |-> [texture |-> "#0"],
     up    |-> [uv |-> <<Num(4), Num(4), Num(4), Num(12)>>, texture |-> "#9"]],
    [north |-> [uv |-> <<Num(2) + 1, Half(3), Num(10), Num(4)>>, texture |-> "#2"],
     up    |-> [uv |-> <<Num(2) + 1, Half(3), Num(10), Num(4)>>, texture |-> "#0"]] }

\* the elements handed to convertElement: every geometry, with and without a
\* rotation, and every face table on one geometry
Elements ==
  [from : Corners, to : Corners]
    \cup [from : Corners, to : Corners, rotation : Rotations]
    \cup [from : {Vec(0, 0, 0)}, to : {Vec(16, 16, 16)}, faces : SomeFaces]
    \cup [from : {Vec(0, 0, 0)}, to : {Vec(16, 16, 16)}, faces : SomeFaces,
          rotation : {[origin |-> Vec(8, 8, 8), angle |-> Half(22), axis |-> "y"]}]

YRotation(origin) == [origin |-> origin, angle |-> Half(22), axis |-> "y"]

\* the elements of the lists handed to groupCubesByRotation and convert: two
\* plain ones, two with one rotation, one whose rotation origin differs from it
\* below the fourth decimal, and two whose zero angle is about different axes
ListElements ==
  { [from |-> Vec(0, 0, 0), to |-> Vec(16, 16, 16),
     faces |-> [north |-> [uv |-> <<0, 0, Num(8), Num(8)>>, texture |-> "#0"]]],
    [from |-> Vec(16, 0, 4), to |-> Vec(16, 16, 16)],
    [from |-> Vec(0, 0, 0), to |-> Vec(16, 16, 16), rotation |-> YRotation(Vec(8, 8, 8))],
    [from |-> Vec(16, 0, 4), to |-> Vec(16, 16, 16), rotation |-> YRotation(Vec(8, 8, 8))],
    [from |-> Vec(0, 0, 0), to |-> Vec(16, 0, 4),
     rotation |-> YRotation(<<Num(8) + 1, Num(8), Num(8)>>)],
    [from |-> Vec(0, 0, 0), to |-> Vec(16, 16, 16),
     rotation |-> [origin |-> Vec(8, 8, 8), angle |-> 0, axis |-> "x"]],
    [from |-> Vec(0, 0, 0), to |-> Vec(16, 0, 4),
     rotation |-> [origin |-> Vec(8, 8, 8), angle |-> 0, axis |-> "z"]] }

\* the lists of at most MaxElems elements
ElementLists == UNION { [1..n -> ListElements] : n \in 0..MaxElems }

\* the source documents: { textures?, texture_size?, elements? }
JavaModels ==
  { shell @@ [elements |-> l] : shell \in ModelShells, l \in ElementLists }
    \cup ModelShells

ModelNames == { "m_sw" }

-----------------------------------------------------------------------------
(* The converter as a state machine: one instance, one call at a time *)

Idle == [op |-> "idle"]

\* constructor, lines 6-10
newConverter ==
  /\ textureWidth = 16
  /\ textureHeight = 16
  /\ spritesheetData = NULL
  /\ call = Idle

\* main() is not run: the class is used on its own
mainNotRun ==
  /\ modelsByNamespace = <<>>
  /\ pc = "off"
  /\ nsIndex = 0
  /\ fileIndex = 0
  /\ successCount = 0
  /\ failCount = 0
  /\ skippedCount = 0
  /\ failedModels = <<>>
  /\ outputFiles = <<>>
  /\ textureFiles = {}
  /\ createdFiles = {}
  /\ processedPaths = {}
  /\ console = <<>>

Init == newConverter /\ mainNotRun

\* main, line 481: sharedConverter.spritesheetData = spritesheetData
SetSpritesheetData ==
  /\ call = Idle
  /\ spritesheetData = NULL
  /\ \E atlas \in Atlases : spritesheetData' = atlas
  /\ UNCHANGED <<textureWidth, textureHeight, call>>
  /\ UNCHANGED driver

CallCalculateUV ==
  /\ call = Idle
  /\ \E face \in Faces, textureKey \in TextureKeys, javaModel \in ModelShells :
       /\ Has(face, "texture") => textureKey = face.texture
       /\ call' = [op |-> "calculateUV", face |-> face, textureKey |-> textureKey,
                   javaModel |-> javaModel,
                   ret |-> calculateUV(spritesheetData, face, textureKey, javaModel)]
  /\ UNCHANGED <<textureWidth, textureHeight, spritesheetData>>
  /\ UNCHANGED driver

CallConvertElement ==
  /\ call = Idle
  /\ \E element \in Elements, javaModel \in ModelShells :
       /\ ~Has(javaModel, "textures") => Has(element, "faces")
       /\ call' = [op |-> "convertElement", element |-> element, javaModel |-> javaModel,
                   ret |-> convertElement(spritesheetData, element, javaModel)]
  /\ UNCHANGED <<textureWidth, textureHeight, spritesheetData>>
  /\ UNCHANGED driver

CallGroupCubesByRotation ==
  /\ call = Idle
  /\ \E elements \in ElementLists :
       LET javaModel == [textures |-> Textures, elements |-> elements]
       IN  call' = [op |-> "groupCubesByRotation", elements |-> elements,
                    javaModel |-> javaModel,
                    ret |-> groupCubesByRotation(spritesheetData, elements, javaModel)]
  /\ UNCHANGED <<textureWidth, textureHeight, spritesheetData>>
  /\ UNCHANGED driver

\* mutant: convert drops the atlas once it has used it
CallConvert_dropsAtlas ==
  /\ call = Idle
  /\ \E javaModel \in JavaModels, modelName \in ModelNames :
       /\ textureWidth' =
            textureSizeOf(spritesheetData, javaModel, textureWidth, textureHeight)[1]
       /\ textureHeight' =
            textureSizeOf(spritesheetData, javaModel, textureWidth, textureHeight)[2]
       /\ call' = [op |-> "convert", javaModel |-> javaModel, modelName |-> modelName,
                   ret |-> convert(spritesheetData, textureWidth, textureHeight,
                                   javaModel, modelName)]
  /\ spritesheetData' = NULL
  /\ UNCHANGED driver

\* convert(javaModel, modelName, ...), lines 242-317
CallConvert ==
  /\ call = Idle
  /\ \E javaModel \in JavaModels, modelName \in ModelNames :
       /\ textureWidth' =
            textureSizeOf(spritesheetData, javaModel, textureWidth, textureHeight)[1]
       /\ textureHeight' =
            textureSizeOf(spritesheetData, javaModel, textureWidth, textureHeight)[2]
       /\ call' = [op |-> "convert", javaModel |-> javaModel, modelName |-> modelName,
                   ret |-> convert(spritesheetData, textureWidth, textureHeight,
                                   javaModel, modelName)]
  /\ UNCHANGED spritesheetData
  /\ UNCHANGED driver

\* the call returns (or its exception reaches the caller)
Return ==
  /\ call # Idle
  /\ call' = Idle
  /\ UNCHANGED <<textureWidth, textureHeight, spritesheetData>>
  /\ UNCHANGED driver

Next ==
  \/ SetSpritesheetData
  \/ CallCalculateUV
  \/ CallConvertElement
  \/ CallGroupCubesByRotation
  \/ CallConvert
  \/ Return

Spec == Init /\ [][Next]_vars

-----------------------------------------------------------------------------
(* main: converter.js lines 321-559 *)

\* what fs.readFileSync or JSON.parse of a model file throws
Unreadable == [error |-> "Unexpected token in JSON"]

\* what fs.writeFileSync throws
WriteError == "EACCES: permission denied"

FaceElement ==
  [from |-> Vec(0, 0, 0), to |-> Vec(16, 16, 16),
   faces |-> [north |-> [uv |-> <<0, 0, Num(8), Num(8)>>, texture |-> "#0"]]]

\* what a model file holds: no JSON, a document without elements, one with an
\* empty element list, one with an element, one with an element and no
\* texture table
FileContents ==
  { Unreadable,
    [textures |-> Textures],
    [textures |-> Textures, elements |-> <<>>],
    [textures |-> Textures, elements |-> <<FaceElement>>],
    [elements |-> <<FaceElement>>] }

\* the lists of n model files of one namespace
FilesOfLen(n) == [1..n -> FileContents]

\* the packs: no model file, or one or two namespaces of model files, at most
\* MaxFiles files in all
Packs ==
  { <<>> }
    \cup UNION { { <<a>> : a \in FilesOfLen(n) } : n \in 1..MaxFiles }
    \cup UNION { { <<a, b>> : a \in FilesOfLen(q[1]), b \in FilesOfLen(q[2]) } :
                 q \in {r \in (1..MaxFiles) \X (1..MaxFiles) : r[1] + r[2] <= MaxFiles} }

\* the textures directory of a namespace: each .png, animated when a
\* .png.mcmeta stands beside it; the last directory holds a texture of the
\* pack whose own name ends in _cropped.png
TextureDirs ==
  { {},
    { [path |-> "t/b/sw.png", animated |-> FALSE] },
    { [path |-> "t/b/sw.png", animated |-> FALSE],
      [path |-> "t/an.png", animated |-> TRUE] },
    { [path |-> "t/c/k_cropped.png", animated |-> FALSE] } }

\* line 443: texturePath.replace('.png', '_cropped.png'), the first '.png' only
firstPng(s) == firstOf({i \in 1..(Len(s) - 3) : SubSeq(s, i, i + 3) = ".png"})

spliceCropped(s, at) ==
  IF at = 0 THEN s
  ELSE SubSeq(s, 1, at - 1) \o "_cropped.png" \o SubSeq(s, at + 4, Len(s))

croppedPath(texturePath) == spliceCropped(texturePath, firstPng(texturePath))

\* lines 438-456: the path pushed to processedPaths for one texture
processedPath(texture, cropFails) ==
  IF texture.animated /\ ~cropFails THEN croppedPath(texture.path) ELSE texture.path

\* line 489
modelNameOf(namespace, file) == "ns" \o ToString(namespace) \o "_m" \o ToString(file)

\* the files of the namespace the outer loop is at
files == modelsByNamespace[nsIndex]

\* mutant: a namespace given up counts as one skipped model
skipNamespace_countsOne(why) ==
  /\ skippedCount' = skippedCount + 1
  /\ console' = Append(console, [namespace |-> nsIndex, skipped |-> why])
  /\ nsIndex' = nsIndex + 1
  /\ pc' = "namespace"

\* lines 529, 534, 539: the namespace is given up
skipNamespace(why) ==
  /\ skippedCount' = skippedCount + Len(files)
  /\ console' = Append(console, [namespace |-> nsIndex, skipped |-> why])
  /\ nsIndex' = nsIndex + 1
  /\ pc' = "namespace"

\* lines 466-470: the paths of processedPaths that are unlinked
cleanedUp(paths) == {p \in paths : includes(p, "_cropped.png")}

\* mutant: a model without elements is handed to convert like any other
fileOutcome_noSkip(javaModel, bedrockModel, writable) ==
  IF javaModel = Unreadable THEN [outcome |-> "failed", error |-> javaModel.error]
  ELSE IF IsThrow(bedrockModel) THEN [outcome |-> "failed", error |-> bedrockModel.throw]
  ELSE IF ~writable THEN [outcome |-> "failed", error |-> WriteError]
  ELSE [outcome |-> "success"]

\* lines 491-521: how the body of the inner loop ends for one model file,
\* given what convert returns or throws for it
fileOutcome(javaModel, bedrockModel, writable) ==
  IF javaModel = Unreadable THEN [outcome |-> "failed", error |-> javaModel.error]
  ELSE IF noElements(javaModel) THEN [outcome |-> "skipped"]
  ELSE IF IsThrow(bedrockModel) THEN [outcome |-> "failed", error |-> bedrockModel.throw]
  ELSE IF ~writable THEN [outcome |-> "failed", error |-> WriteError]
  ELSE [outcome |-> "success"]

\* line 509 is reached
convertCalled(javaModel) == javaModel # Unreadable /\ ~noElements(javaModel)

\* line 512 is reached
writeReached(javaModel, bedrockModel) ==
  convertCalled(javaModel) /\ ~IsThrow(bedrockModel)

\* mutant: the catch block counts the failure and leaves the loop
nextFile_breakOnFailure(index, outcome) ==
  IF outcome = "failed" THEN Len(files) + 1 ELSE index + 1

\* lines 484, 500, 522: the inner loop goes on with the next file, whatever
\* the outcome
nextFile(index, outcome) == index + 1

\* lines 499, 515, 519-520, 512 and the messages of 498, 514, 518
recordOutcome(path, name, result, bedrockModel) ==
  /\ successCount' = successCount + (IF result.outcome = "success" THEN 1 ELSE 0)
  /\ skippedCount' = skippedCount + (IF result.outcome = "skipped" THEN 1 ELSE 0)
  /\ failCount' = failCount + (IF result.outcome = "failed" THEN 1 ELSE 0)
  /\ failedModels' =
       IF result.outcome = "failed"
         THEN Append(failedModels, [name |-> name, path |-> path, error |-> result.error])
         ELSE failedModels
  /\ outputFiles' =
       IF result.outcome = "success" THEN (path :> bedrockModel) @@ outputFiles
       ELSE outputFiles
  /\ console' = Append(console, [path |-> path] @@ result)
  /\ fileIndex' = nextFile(fileIndex, result.outcome)

\* the state main() starts in: the model files of the pack are on disk and no
\* converter is made yet
mainStarts ==
  /\ newConverter
  /\ modelsByNamespace \in Packs
  /\ pc = "scan"
  /\ nsIndex = 0
  /\ fileIndex = 0
  /\ successCount = 0
  /\ failCount = 0
  /\ skippedCount = 0
  /\ failedModels = <<>>
  /\ outputFiles = <<>>
  /\ textureFiles = {}
  /\ createdFiles = {}
  /\ processedPaths = {}
  /\ console = <<>>

\* lines 386-414: no model file is exit(1); else the outer loop begins
FindModelFiles ==
  /\ pc = "scan"
  /\ pc' = IF modelsByNamespace = <<>> THEN "exit" ELSE "namespace"
  /\ nsIndex' = 1
  /\ UNCHANGED <<modelsByNamespace, fileIndex, successCount, failCount, skippedCount,
                 failedModels, outputFiles, textureFiles, createdFiles, processedPaths,
                 console>>
  /\ UNCHANGED converter

\* lines 417-456 and 537-540: the textures of the namespace are collected and
\* the animated ones cropped
CollectTextures ==
  /\ pc = "namespace"
  /\ nsIndex <= Len(modelsByNamespace)
  /\ \E dir \in TextureDirs, cropFails \in BOOLEAN :
       /\ cropFails => \E t \in dir : t.animated
       /\ processedPaths' = {processedPath(t, cropFails) : t \in dir}
       /\ createdFiles' = {croppedPath(t.path) : t \in {u \in dir : u.animated /\ ~cropFails}}
       /\ textureFiles' =
            {t.path : t \in dir}
              \cup {croppedPath(t.path) : t \in {u \in dir : u.animated /\ ~cropFails}}
       /\ IF dir = {}
            THEN skipNamespace("No textures found in namespace")
            ELSE /\ pc' = "spritesheet"
                 /\ UNCHANGED <<nsIndex, skippedCount, console>>
  /\ UNCHANGED <<modelsByNamespace, fileIndex, successCount, failCount, failedModels,
                 outputFiles>>
  /\ UNCHANGED converter

\* lines 458-481 and 527-535: the packer is run, the cropped copies are
\* unlinked, and the atlas is read into a new converter
GenerateSpritesheet ==
  /\ pc = "spritesheet"
  /\ \/ /\ skipNamespace("Atlas generation failed")
        /\ UNCHANGED <<textureFiles, fileIndex>>
        /\ UNCHANGED converter
     \/ /\ skipNamespace("Atlas files not created")
        /\ textureFiles' = textureFiles \ cleanedUp(processedPaths)
        /\ UNCHANGED fileIndex
        /\ UNCHANGED converter
     \/ /\ skipNamespace("Atlas generation failed")
        /\ textureFiles' = textureFiles \ cleanedUp(processedPaths)
        /\ UNCHANGED fileIndex
        /\ UNCHANGED converter
     \/ /\ \E atlas \in Atlases : spritesheetData' = atlas
        /\ textureWidth' = 16
        /\ textureHeight' = 16
        /\ textureFiles' = textureFiles \ cleanedUp(processedPaths)
        /\ fileIndex' = 1
        /\ pc' = "files"
        /\ UNCHANGED <<nsIndex, skippedCount, console, call>>
  /\ UNCHANGED <<modelsByNamespace, successCount, failCount, failedModels, outputFiles,
                 createdFiles, processedPaths>>

\* lines 484-522: one pass of the inner loop
ConvertFile ==
  /\ pc = "files"
  /\ fileIndex <= Len(files)
  /\ \E bedrockModel \in {convert(spritesheetData, textureWidth, textureHeight,
                                  files[fileIndex], modelNameOf(nsIndex, fileIndex))} :
       \E writable \in BOOLEAN :
         /\ ~writable => writeReached(files[fileIndex], bedrockModel)
         /\ \E result \in {fileOutcome(files[fileIndex], bedrockModel, writable)} :
              recordOutcome(<<nsIndex, fileIndex>>, modelNameOf(nsIndex, fileIndex),
                            result, bedrockModel)
  /\ textureWidth' =
       IF convertCalled(files[fileIndex])
         THEN textureSizeOf(spritesheetData, files[fileIndex], textureWidth, textureHeight)[1]
         ELSE textureWidth
  /\ textureHeight' =
       IF convertCalled(files[fileIndex])
         THEN textureSizeOf(spritesheetData, files[fileIndex], textureWidth, textureHeight)[2]
         ELSE textureHeight
  /\ UNCHANGED <<modelsByNamespace, pc, nsIndex, textureFiles, createdFiles, processedPaths,
                 spritesheetData, call>>

\* lines 522-541: the inner loop is over; the outer loop goes to the next
\* namespace
NextNamespace ==
  /\ pc = "files"
  /\ fileIndex > Len(files)
  /\ nsIndex' = nsIndex + 1
  /\ pc' = "namespace"
  /\ UNCHANGED <<modelsByNamespace, fileIndex, successCount, failCount, skippedCount,
                 failedModels, outputFiles, textureFiles, createdFiles, processedPaths,
                 console>>
  /\ UNCHANGED converter

\* lines 543-558: the summary
PrintSummary ==
  /\ pc = "namespace"
  /\ nsIndex > Len(modelsByNamespace)
  /\ pc' = "done"
  /\ UNCHANGED <<modelsByNamespace, nsIndex, fileIndex, successCount, failCount,
                 skippedCount, failedModels, outputFiles, textureFiles, createdFiles,
                 processedPaths, console>>
  /\ UNCHANGED converter

MainNext ==
  \/ FindModelFiles
  \/ CollectTextures
  \/ GenerateSpritesheet
  \/ ConvertFile
  \/ NextNamespace
  \/ PrintSummary

\* main() on a pack
Main == mainStarts /\ [][MainNext]_vars

\* a pass of the inner loop, by what it does to the loop: inside the loop
\* ConvertFile can always run, and it is the only step main() takes there
LoopPass ==
  /\ pc = "files"
  /\ fileIndex <= Len(files)
  /\ fileIndex' = fileIndex + 1

\* main() runs to its end: it is one thread and nothing in it waits
MainFair ==
  /\ Main
  /\ WF_vars(FindModelFiles)
  /\ WF_vars(CollectTextures)
  /\ WF_vars(GenerateSpritesheet)
  /\ WF_fileIndex(LoopPass)
  /\ WF_vars(NextNamespace)
  /\ WF_vars(PrintSummary)

\* the class used on its own, or main()
UseClass == pc = "off" /\ Next

RunMain == pc # "off" /\ MainNext

Program == (Init \/ mainStarts) /\ [][UseClass \/ RunMain]_vars

-----------------------------------------------------------------------------
(* The other writings of the element transform *)

\* auto-fix.js lines 72-76
originCorrected(from, to) ==
  <<roundit(Num(8) - to[1]), roundit(from[2]), roundit(from[3] - Num(8))>>

\* auto-fix.js lines 78-82
sizeCorrected(from, to) ==
  <<roundit(to[1] - from[1]), roundit(to[2] - from[2]), roundit(to[3] - from[3])>>

\* auto-fix.js lines 90-94
pivotCorrected(rotOrigin) ==
  <<roundit(Num(8) - rotOrigin[1]), roundit(rotOrigin[2]), roundit(rotOrigin[3] - Num(8))>>

\* auto-fix.js lines 100-104
rotationCorrected(angle, axis) ==
  <<IF axis = "x" THEN -angle ELSE 0,
    IF axis = "y" THEN -angle ELSE 0,
    IF axis = "z" THEN angle ELSE 0>>

\* auto-fix.js lines 63-108
convertElementCorrected(element) ==
  [origin |-> originCorrected(element.from, element.to),
   size   |-> sizeCorrected(element.from, element.to)]
    @@ (IF Has(element, "rotation")
          THEN [pivot    |-> pivotCorrected(element.rotation.origin),
                rotation |-> rotationCorrected(element.rotation.angle,
                                               element.rotation.axis)]
          ELSE <<>>)

\* part_001 lines 590-657, but for the uv map of lines 612-627
part001_convertElement(element) ==
  [origin |-> <<roundit(Num(8) - element.to[1]), roundit(element.from[2]),
                roundit(element.from[3] - Num(8))>>,
   size   |-> <<roundit(element.to[1] - element.from[1]),
                roundit(element.to[2] - element.from[2]),
                roundit(element.to[3] - element.from[3])>>]
    @@ (IF Has(element, "rotation")
          THEN [pivot    |-> <<roundit(Num(8) - element.rotation.origin[1]),
                               roundit(element.rotation.origin[2]),
                               roundit(element.rotation.origin[3] - Num(8))>>,
                rotation |-> <<IF element.rotation.axis = "x"
                                 THEN -element.rotation.angle ELSE 0,
                               IF element.rotation.axis = "y"
                                 THEN -element.rotation.angle ELSE 0,
                               IF element.rotation.axis = "z"
                                 THEN element.rotation.angle ELSE 0>>]
          ELSE <<>>)

\* mutant: the origin of FORMULAS.alt2, which starts from from[0]
current_origin_alt2(from, to) ==
  <<-from[1] + Num(8), from[2], from[3] - Num(8)>>

\* test-formulas.js lines 14-18: FORMULAS.current.origin, not yet rounded
current_origin(from, to) ==
  <<-to[1] + Num(8), from[2], from[3] - Num(8)>>

\* test-formulas.js lines 19-23: FORMULAS.current.pivot
current_pivot(origin) ==
  <<-origin[1] + Num(8), origin[2], origin[3] - Num(8)>>

\* test-formulas.js lines 24-28: FORMULAS.current.rotation
current_rotation(angle, axis) ==
  <<IF axis = "x" THEN -angle ELSE 0,
    IF axis = "y" THEN -angle ELSE 0,
    IF axis = "z" THEN angle ELSE 0>>

\* vector.map(roundit)
mapRoundit(vector) == [k \in 1..Len(vector) |-> roundit(vector[k])]

\* test-formulas.js lines 132-155: the cube convertWithFormula(javaModel,
\* 'current') makes of one element
convertWithFormula(element) ==
  [origin |-> mapRoundit(current_origin(element.from, element.to)),
   size   |-> <<roundit(element.to[1] - element.from[1]),
                roundit(element.to[2] - element.from[2]),
                roundit(element.to[3] - element.from[3])>>]
    @@ (IF Has(element, "rotation")
          THEN [pivot    |-> mapRoundit(current_pivot(element.rotation.origin)),
                rotation |-> current_rotation(element.rotation.angle,
                                              element.rotation.axis)]
          ELSE <<>>)

\* one element is handed to each of the four writings
ConvertWithEach ==
  /\ call = Idle
  /\ \E element \in Elements :
       call' = [op        |-> "each",
                element   |-> element,
                converter |-> convertElement(spritesheetData, element,
                                             [textures |-> Textures]),
                corrected |-> convertElementCorrected(element),
                part001   |-> part001_convertElement(element),
                formula   |-> convertWithFormula(element)]
  /\ UNCHANGED <<textureWidth, textureHeight, spritesheetData>>
  /\ UNCHANGED driver

\* the four scripts run on the same elements
Scripts == Init /\ [][ConvertWithEach \/ Return]_vars

-----------------------------------------------------------------------------
(* Vocabulary of the properties *)

\* round4(v) = round(v * 10000) / 10000, stated without roundit: the multiple
\* of 0.0001 nearest to v, the upper one when v is half-way (Math.round)
Round4(v) ==
  CHOOSE m \in {(v \div Sub) * Sub, (v \div Sub) * Sub + Sub} :
    2 * (m - v) <= Sub /\ 2 * (v - m) < Sub

\* the elements of the set of numbers S, in increasing order
Sorted(S) ==
  CHOOSE s \in [1..Cardinality(S) -> S] : \A a, b \in 1..Cardinality(S) : a < b => s[a] < s[b]

Returned(op) == call.op = op /\ ~IsThrow(call.ret)

\* the target-space pivot and rotation vector the spec gives a source rotation
TargetPivot(r) ==
  <<Round4(Num(8) - r.origin[1]), Round4(r.origin[2]), Round4(r.origin[3] - Num(8))>>

TargetRotation(r) ==
  <<IF r.axis = "x" THEN -r.angle ELSE 0,
    IF r.axis = "y" THEN -r.angle ELSE 0,
    IF r.axis = "z" THEN r.angle ELSE 0>>

-----------------------------------------------------------------------------
(* Geometry Transform *)

\* C1: convertElement returns origin = [round4(8 - to[0]), round4(from[1]),
\* round4(from[2] - 8)] for every element; from = [0,0,0], to = [16,16,16]
\* gives origin = [-8,0,-8] and size = [16,16,16].
C1_Origin ==
  Returned("convertElement") =>
    /\ call.ret.origin = <<Round4(Num(8) - call.element.to[1]),
                           Round4(call.element.from[2]),
                           Round4(call.element.from[3] - Num(8))>>
    /\ (call.element.from = Vec(0, 0, 0) /\ call.element.to = Vec(16, 16, 16)) =>
         /\ call.ret.origin = Vec(-8, 0, -8)
         /\ call.ret.size = Vec(16, 16, 16)

\* a call whose corners have digits below the fourth decimal, so that the
\* origin is a rounded value
C1_Witness ==
  /\ Returned("convertElement")
  /\ call.element.from = <<Num(4) + 1, Half(2), Num(12) + (Sub \div 2)>>
  /\ call.element.to = Vec(16, 16, 16)
  /\ call.ret.origin = <<Num(-8), Half(2), Num(4) + Sub>>

\* C2: size[i] = round4(to[i] - from[i]) on every axis, size[i] >= 0 whenever
\* to[i] >= from[i], and from[i] = to[i] gives size[i] = 0 without an error.
C2_Size ==
  call.op = "convertElement" =>
    /\ Has(call.javaModel, "textures") => ~IsThrow(call.ret)
    /\ ~IsThrow(call.ret) =>
         \A i \in 1..3 :
           /\ call.ret.size[i] = Round4(call.element.to[i] - call.element.from[i])
           /\ call.element.to[i] >= call.element.from[i] => call.ret.size[i] >= 0
           /\ call.element.to[i] = call.element.from[i] => call.ret.size[i] = 0

\* a cube that is flat on one axis only
C2_Witness ==
  /\ Returned("convertElement")
  /\ call.element.from = Vec(16, 0, 4)
  /\ call.element.to = Vec(16, 16, 16)
  /\ call.ret.size = Vec(0, 16, 12)

\* C3: an element with a rotation {origin, angle, axis} gets pivot =
\* [round4(8 - origin[0]), round4(origin[1]), round4(origin[2] - 8)] and
\* rotation = [-angle if x, -angle if y, angle if z, else 0]; axis x, angle 45
\* gives [-45,0,0] and axis z, angle 30 gives [0,0,30].
C3_Rotation ==
  (Returned("convertElement") /\ Has(call.element, "rotation")) =>
    /\ call.ret.pivot = TargetPivot(call.element.rotation)
    /\ call.ret.rotation = TargetRotation(call.element.rotation)
    /\ (call.element.rotation.axis = "x" /\ call.element.rotation.angle = Num(45)) =>
         call.ret.rotation = Vec(-45, 0, 0)
    /\ (call.element.rotation.axis = "z" /\ call.element.rotation.angle = Num(30)) =>
         call.ret.rotation = Vec(0, 0, 30)

C3_Witness ==
  /\ Returned("convertElement")
  /\ Has(call.element, "rotation")
  /\ call.element.rotation = [origin |-> <<Num(8) + 1, Num(8), Num(8)>>,
                              angle |-> Num(30), axis |-> "z"]
  /\ call.ret.pivot = Vec(0, 8, 0)
  /\ call.ret.rotation = Vec(0, 0, 30)

-----------------------------------------------------------------------------
(* Rotation Grouper *)

\* the source elements of the grouping call that have a rotation
RotatedElements == {i \in 1..Len(call.elements) : Has(call.elements[i], "rotation")}

\* the rounded target-space key (pivot, rotation) of a rotated source element
TargetKey(element) == <<TargetPivot(element.rotation), TargetRotation(element.rotation)>>

GroupKey(group) == <<group.pivot, group.rotation>>

RECURSIVE CubesInGroups(_, _)
CubesInGroups(groups, n) ==
  IF n = 0 THEN 0 ELSE Len(groups[n].cubes) + CubesInGroups(groups, n - 1)

\* C4: the grouper partitions the cubes: the number of cubes over noPivotCubes
\* and all groups is the number of source elements.
C4_Partition ==
  Returned("groupCubesByRotation") =>
    Len(call.ret.noPivotCubes) + CubesInGroups(call.ret.groups, Len(call.ret.groups))
      = Len(call.elements)

\* C5: grouping is decided on the rounded target-space values: no two groups
\* have equal (pivot, rotation), and there is one group per rounded key of the
\* rotated elements.
C5_RoundedKeys ==
  Returned("groupCubesByRotation") =>
    /\ \A a, b \in 1..Len(call.ret.groups) :
         a # b => GroupKey(call.ret.groups[a]) # GroupKey(call.ret.groups[b])
    /\ Len(call.ret.groups)
         = Cardinality({TargetKey(call.elements[i]) : i \in RotatedElements})

\* C6: when exactly two elements are rotated and their rotations are
\* identical, there is one group and it holds two cubes, whatever plain
\* elements stand before, between or after them.
C6_SameRotation ==
  Returned("groupCubesByRotation") =>
    \A i, j \in RotatedElements :
      (/\ i < j
       /\ RotatedElements = {i, j}
       /\ call.elements[i].rotation = call.elements[j].rotation) =>
        /\ Len(call.ret.groups) = 1
        /\ Len(call.ret.groups[1].cubes) = 2

\* two identically rotated elements with a plain element between them
C6_Witness ==
  /\ Returned("groupCubesByRotation")
  /\ Len(call.elements) = 3
  /\ RotatedElements = {1, 3}
  /\ call.elements[1].rotation = call.elements[3].rotation
  /\ call.elements[1] # call.elements[3]
  /\ Len(call.ret.groups) = 1
  /\ Len(call.ret.groups[1].cubes) = 2
  /\ Len(call.ret.noPivotCubes) = 1

\* the cube the Geometry Transform makes of element i of the grouping call,
\* as the grouper emits it
EmittedCube(i) ==
  cubeWithoutPivot(convertElement(spritesheetData, call.elements[i], call.javaModel))

\* the rotated elements whose source rotation no earlier element has
FirstEncounters ==
  {i \in RotatedElements :
     \A j \in RotatedElements : j < i => call.elements[j].rotation # call.elements[i].rotation}

\* the rotated elements with the rounded key of a group
MembersOf(group) ==
  {i \in RotatedElements : TargetKey(call.elements[i]) = GroupKey(group)}

\* C7: groups are emitted in the order their source rotation is first met in
\* the element sequence; the cubes of a group and the cubes of the
\* no-rotation list keep the order of the source elements.
C7_Order ==
  Returned("groupCubesByRotation") =>
    /\ Len(call.ret.groups) = Cardinality(FirstEncounters)
    /\ \A g \in 1..Len(call.ret.groups) :
         /\ GroupKey(call.ret.groups[g])
              = TargetKey(call.elements[Sorted(FirstEncounters)[g]])
         /\ call.ret.groups[g].cubes
              = [k \in 1..Cardinality(MembersOf(call.ret.groups[g])) |->
                   EmittedCube(Sorted(MembersOf(call.ret.groups[g]))[k])]
    /\ call.ret.noPivotCubes
         = [k \in 1..(Len(call.elements) - Cardinality(RotatedElements)) |->
              EmittedCube(Sorted((1..Len(call.elements)) \ RotatedElements)[k])]

\* two groups, the second with two different cubes, and two different plain cubes
C7_Witness ==
  /\ Returned("groupCubesByRotation")
  /\ Len(call.ret.groups) = 2
  /\ GroupKey(call.ret.groups[1]) # GroupKey(call.ret.groups[2])
  /\ Len(call.ret.groups[2].cubes) = 2
  /\ call.ret.groups[2].cubes[1] # call.ret.groups[2].cubes[2]

-----------------------------------------------------------------------------
(* Model Assembler *)

\* the bones of the document the convert call returned
Bones == call.ret["minecraft:geometry"][1].bones

\* what the Rotation Grouper makes of the document of the convert call
Grouped == groupCubesByRotation(spritesheetData, call.javaModel.elements, call.javaModel)

\* the scaffold, for the bones of a converted document and what the Rotation
\* Grouper makes of its elements
IsScaffold(bones, grouped, elements) ==
  /\ Len(bones) >= 4
  /\ ~Has(bones[1], "parent")
  /\ \A b \in 2..4 : bones[b].parent = bones[b - 1].name
  /\ \A b \in 1..4 : bones[b].pivot = Vec(0, 8, 0)
  /\ Has(bones[4], "cubes")
  /\ bones[4].cubes = grouped.noPivotCubes
  /\ (\A i \in 1..Len(elements) : Has(elements[i], "rotation")) => bones[4].cubes = <<>>

\* C8: the first four bones of every converted document are a parent chain,
\* each pivoted at [0,8,0]; the fourth always has a cubes field, holding
\* exactly the no-rotation cubes, the empty list when every element is rotated.
C8_Scaffold ==
  Returned("convert") => IsScaffold(Bones, Grouped, call.javaModel.elements)

\* a document whose elements are all rotated
C8_Witness ==
  /\ Returned("convert")
  /\ Len(call.javaModel.elements) = 2
  /\ \A i \in 1..2 : Has(call.javaModel.elements[i], "rotation")
  /\ Has(Bones[4], "cubes")
  /\ Bones[4].cubes = <<>>

\* the names of the rotation bones, by 1-based emission index
RotNames == <<"rot_1", "rot_2", "rot_3", "rot_4", "rot_5", "rot_6">>

\* the rotation bones, for the bones of a converted document and the groups
\* the Rotation Grouper makes of its elements
AreRotationBones(bones, groups) ==
  /\ Len(bones) = 4 + Len(groups)
  /\ \A g \in 1..Len(groups) :
       /\ bones[4 + g].name = RotNames[g]
       /\ bones[4 + g].parent = bones[4].name
       /\ bones[4 + g].pivot = groups[g].pivot
       /\ bones[4 + g].rotation = groups[g].rotation
       /\ bones[4 + g].cubes = groups[g].cubes
  /\ \A a, b \in 1..Len(bones) : a # b => bones[a].name # bones[b].name

\* C9: after the scaffold comes one bone per rotation group, in group order,
\* named rot_1, rot_2, ..., parented to the fourth scaffold bone and carrying
\* the group's pivot, rotation and cubes; there are 4 + #groups bones and
\* their names are distinct.
C9_RotationBones ==
  Returned("convert") => AreRotationBones(Bones, Grouped.groups)

\* a document with two rotation groups
C9_Witness ==
  /\ Returned("convert")
  /\ Len(Bones) = 6
  /\ Bones[5].name = "rot_1"
  /\ Bones[6].name = "rot_2"
  /\ Bones[5].pivot # Bones[6].pivot \/ Bones[5].rotation # Bones[6].rotation
  /\ Bones[6].cubes # <<>>

-----------------------------------------------------------------------------
(* UV Remapper *)

\* the texture table of the calculateUV call resolves its texture key
TextureResolved ==
  /\ Has(call.javaModel, "textures")
  /\ substring(call.textureKey, 1) \in DOMAIN call.javaModel.textures
  /\ call.javaModel.textures[substring(call.textureKey, 1)] # ""

\* the converter holds no atlas frame table
NoAtlasData == spritesheetData = NULL \/ ~Has(spritesheetData, "frames")

\* no frame of the atlas is found for the resolved texture
NotInAtlas ==
  findTextureData(spritesheetData.frames,
                  call.javaModel.textures[substring(call.textureKey, 1)]) = 0

\* C10: in fallback mode (no atlas data, or the texture is not found in the
\* atlas frames) calculateUV returns uv = [u0, v0] and
\* uv_size = [u1 - u0, v1 - v0] exactly; [0,0,8,8] gives [0,0] and [8,8].
C10_Fallback ==
  (/\ call.op = "calculateUV"
   /\ Has(call.face, "uv")
   /\ TextureResolved
   /\ (NoAtlasData \/ NotInAtlas)) =>
    /\ call.ret = [uv      |-> <<call.face.uv[1], call.face.uv[2]>>,
                   uv_size |-> <<call.face.uv[3] - call.face.uv[1],
                                 call.face.uv[4] - call.face.uv[2]>>]
    /\ call.face.uv = <<0, 0, Num(8), Num(8)>> =>
         call.ret = [uv |-> <<0, 0>>, uv_size |-> <<Num(8), Num(8)>>]

\* an atlas is there, the texture is not in it, and the face's uv has digits
\* below the fourth decimal
C10_Witness ==
  /\ call.op = "calculateUV"
  /\ Has(call.face, "uv")
  /\ TextureResolved
  /\ ~NoAtlasData
  /\ NotInAtlas
  /\ call.face.uv = <<Num(2) + 1, Half(3), Num(10), Num(4)>>
  /\ call.ret = [uv |-> <<Num(2) + 1, Half(3)>>, uv_size |-> <<Num(8) - 1, Half(0)>>]

-----------------------------------------------------------------------------
(* UV Remapper, atlas mode *)

\* the calculateUV call found a frame of the atlas for its texture
InAtlasMode ==
  /\ call.op = "calculateUV"
  /\ Has(call.face, "uv")
  /\ TextureResolved
  /\ ~NoAtlasData
  /\ ~NotInAtlas

\* the frame table's entry the lookup of the calculateUV call stops at
MatchedFrame ==
  spritesheetData.frames[
    findTextureData(spritesheetData.frames,
                    call.javaModel.textures[substring(call.textureKey, 1)])].frame

\* W times the mapped corner  U = (u * w * 0.0625 + x) * (16 / W)
MappedTimesSize(u, x, w) == (u * w) + (16 * x * One)

\* clamp(e / W, -1, 1) times W
ClampedTimesSize(e, W) ==
  IF e > One * W THEN One * W ELSE IF e < -(One * W) THEN -(One * W) ELSE e

\* m = round4(a + f / d) for whole a, d > 0 and -d < f < d: m is a multiple
\* of 0.0001 (less than a unit from a), at most half a step above the value
\* and less than half a step below it
IsRound4Of(m, a, f, d) ==
  /\ m % Sub = 0
  /\ m - a < One
  /\ a - m < One
  /\ 2 * (((m - a) * d) - f) <= Sub * d
  /\ 2 * (f - ((m - a) * d)) < Sub * d

\* uv = round4(U0 + 0.016 * sign) and uv_size = round4((U1 - U0) - 0.016 * sign)
\* on one axis, for p0 = W * U0, e = W * (U1 - U0), s = W * sign; 0.016 = 2 / 125
AxisFormula(uv, size, p0, e, s, W) ==
  /\ IsRound4Of(uv, p0 \div W, (125 * (p0 % W)) + (2 * s), 125 * W)
  /\ IsRound4Of(size, e \div W, (125 * (e % W)) - (2 * s), 125 * W)

AxisFormulaOf(uv, size, p0, p1, W) ==
  AxisFormula(uv, size, p0, p1 - p0, ClampedTimesSize(p1 - p0, W), W)

\* C11: in atlas mode, with the matched frame {x,y,w,h} and the atlas size
\* {W,H}, each corner is mapped as U = (u * w * 0.0625 + x) * (16 / W) and
\* V = (v * h * 0.0625 + y) * (16 / H); with signU = clamp(U1-U0, -1, 1) and
\* signV = clamp(V1-V0, -1, 1) the result is
\* uv = [round4(U0 + 0.016*signU), round4(V0 + 0.016*signV)] and
\* uv_size = [round4((U1-U0) - 0.016*signU), round4((V1-V0) - 0.016*signV)].
C11_AtlasFormula ==
  InAtlasMode =>
    /\ DOMAIN call.ret = {"uv", "uv_size"}
    /\ AxisFormulaOf(call.ret.uv[1], call.ret.uv_size[1],
                     MappedTimesSize(call.face.uv[1], MatchedFrame.x, MatchedFrame.w),
                     MappedTimesSize(call.face.uv[3], MatchedFrame.x, MatchedFrame.w),
                     spritesheetData.meta.size.w)
    /\ AxisFormulaOf(call.ret.uv[2], call.ret.uv_size[2],
                     MappedTimesSize(call.face.uv[2], MatchedFrame.y, MatchedFrame.h),
                     MappedTimesSize(call.face.uv[4], MatchedFrame.y, MatchedFrame.h),
                     spritesheetData.meta.size.h)

\* a face on the frame at (16,0) of 16x32 in the atlas of 32x48 whose mapped
\* height is a third of a unit, so that signV is a fraction: V0 = 2.3333..,
\* V1 = 2.6666.., uv[1] = round4(2.3333.. + 0.016 / 3) and
\* uv_size[1] = round4(0.3333.. - 0.016 / 3)
C11_Witness ==
  /\ InAtlasMode
  /\ call.face.uv = <<Num(2) + 1, Half(3), Num(10), Num(4)>>
  /\ MatchedFrame = [x |-> 16, y |-> 0, w |-> 16, h |-> 32]
  /\ call.ret.uv[2] = 23387 * Sub
  /\ call.ret.uv_size[2] = 3280 * Sub
  /\ call.ret.uv_size[1] = 39840 * Sub

\* round4(p / W) for W > 0
Round4Ratio(p, W) ==
  CHOOSE m \in {((p \div W) \div Sub) * Sub, (((p \div W) \div Sub) * Sub) + Sub} :
    IsRound4Of(m, p \div W, p % W, W)

\* the inset moves uv from the first corner towards the second and shortens
\* uv_size without passing zero: for p0 = W * U0 and e = W * (U1 - U0)
InsetTowards(uv, size, p0, e, W) ==
  /\ e > 0 => (uv >= Round4Ratio(p0, W) /\ size <= Round4Ratio(e, W))
  /\ e < 0 => (uv <= Round4Ratio(p0, W) /\ size >= Round4Ratio(e, W))

\* uv_size keeps the sign of the extent
SizeKeepsSign(size, e) ==
  /\ e > 0 => size >= 0
  /\ e < 0 => size <= 0

\* the extent's magnitude exceeds 2 * 0.016 = 4 / 125
ExceedsTwoInsets(e, W) ==
  e > ((4 * One) \div 125) * W \/ -e > ((4 * One) \div 125) * W

AxisInsetAsClaimed(uv, size, p0, e, W) ==
  /\ InsetTowards(uv, size, p0, e, W)
  /\ ExceedsTwoInsets(e, W) => size >= 0

AxisInsetKeepsSign(uv, size, p0, e, W) ==
  /\ InsetTowards(uv, size, p0, e, W)
  /\ SizeKeepsSign(size, e)

\* W times U0 and W times (U1 - U0) of the calculateUV call, and the same for V
MappedU0 == MappedTimesSize(call.face.uv[1], MatchedFrame.x, MatchedFrame.w)
MappedV0 == MappedTimesSize(call.face.uv[2], MatchedFrame.y, MatchedFrame.h)
ExtentU == (call.face.uv[3] - call.face.uv[1]) * MatchedFrame.w
ExtentV == (call.face.uv[4] - call.face.uv[2]) * MatchedFrame.h

\* C12 as claimed: in atlas mode the inset never flips sign: for a nonzero
\* mapped extent the inset term has the sign of the extent, and the emitted
\* uv_size component is >= 0 whenever the extent's magnitude exceeds 2*0.016.
C12_InsetNonNegative ==
  InAtlasMode =>
    /\ AxisInsetAsClaimed(call.ret.uv[1], call.ret.uv_size[1], MappedU0, ExtentU,
                          spritesheetData.meta.size.w)
    /\ AxisInsetAsClaimed(call.ret.uv[2], call.ret.uv_size[2], MappedV0, ExtentV,
                          spritesheetData.meta.size.h)

\* C12 as amended: for a nonzero mapped extent the inset term has the sign of
\* the extent, and the emitted uv_size component has it too: >= 0 for a
\* positive extent and <= 0 for a negative one (a mirrored face), whatever
\* its magnitude.
C12_InsetKeepsSign ==
  InAtlasMode =>
    /\ AxisInsetKeepsSign(call.ret.uv[1], call.ret.uv_size[1], MappedU0, ExtentU,
                          spritesheetData.meta.size.w)
    /\ AxisInsetKeepsSign(call.ret.uv[2], call.ret.uv_size[2], MappedV0, ExtentV,
                          spritesheetData.meta.size.h)

\* a face mirrored in u on the frame at (16,0) of 16x32: U0 = 16, U1 = 8,
\* uv[0] = 15.984 and uv_size[0] = -7.984
C12_Witness ==
  /\ InAtlasMode
  /\ call.face.uv = <<Num(16), 0, 0, Num(16)>>
  /\ MatchedFrame = [x |-> 16, y |-> 0, w |-> 16, h |-> 32]
  /\ ExtentU < 0
  /\ call.ret.uv[1] = 159840 * Sub
  /\ call.ret.uv_size[1] = -(79840 * Sub)

-----------------------------------------------------------------------------
(* UV Remapper, frame lookup *)

\* the calculateUV call looks its texture up in a frame table
LooksUp ==
  /\ call.op = "calculateUV"
  /\ Has(call.face, "uv")
  /\ TextureResolved
  /\ ~NoAtlasData

\* the texture's path without its namespace, with '/' separators
LookedUpPath == cleanPathOf(call.javaModel.textures[substring(call.textureKey, 1)])

FramePath(i) == normalizeSeparators(spritesheetData.frames[i].path)

\* the frames matching the texture by its full path
ExactFrames ==
  {i \in 1..Len(spritesheetData.frames) : includes(FramePath(i), LookedUpPath \o ".png")}

\* the frames matching by the full path with the '_cropped' suffix
SuffixedFrames ==
  {i \in 1..Len(spritesheetData.frames) :
     includes(FramePath(i), LookedUpPath \o "_cropped.png")}

\* the frames matching by the filename, suffixed or not
FilenameFrames ==
  {i \in 1..Len(spritesheetData.frames) :
     \/ includes(FramePath(i), lastSegment(LookedUpPath) \o ".png")
     \/ includes(FramePath(i), lastSegment(LookedUpPath) \o "_cropped.png")}

\* the result of the calculateUV call is the atlas formula on frame i
UsesFrame(i) ==
  /\ AxisFormulaOf(call.ret.uv[1], call.ret.uv_size[1],
                   MappedTimesSize(call.face.uv[1], spritesheetData.frames[i].frame.x,
                                   spritesheetData.frames[i].frame.w),
                   MappedTimesSize(call.face.uv[3], spritesheetData.frames[i].frame.x,
                                   spritesheetData.frames[i].frame.w),
                   spritesheetData.meta.size.w)
  /\ AxisFormulaOf(call.ret.uv[2], call.ret.uv_size[2],
                   MappedTimesSize(call.face.uv[2], spritesheetData.frames[i].frame.y,
                                   spritesheetData.frames[i].frame.h),
                   MappedTimesSize(call.face.uv[4], spritesheetData.frames[i].frame.y,
                                   spritesheetData.frames[i].frame.h),
                   spritesheetData.meta.size.h)

FallbackResult ==
  [uv      |-> <<call.face.uv[1], call.face.uv[2]>>,
   uv_size |-> <<call.face.uv[3] - call.face.uv[1], call.face.uv[4] - call.face.uv[2]>>]

\* C13: the lookup applies its strategies in priority order over the whole
\* frame table: a full-path match is chosen over any frame matching only by
\* the '_cropped' suffixed path, which is chosen over any frame matching only
\* by filename, whatever the order of the frames in the table; if no frame
\* matches, the fallback UV is returned.
C13_LookupPriority ==
  LooksUp =>
    /\ ExactFrames # {} => \E i \in ExactFrames : UsesFrame(i)
    /\ (ExactFrames = {} /\ SuffixedFrames # {}) => \E i \in SuffixedFrames : UsesFrame(i)
    /\ (ExactFrames = {} /\ SuffixedFrames = {} /\ FilenameFrames # {}) =>
         \E i \in FilenameFrames : UsesFrame(i)
    /\ (ExactFrames = {} /\ SuffixedFrames = {} /\ FilenameFrames = {}) =>
         call.ret = FallbackResult

-----------------------------------------------------------------------------
(* Model Assembler, texture size *)

\* the description of the document the convert call returned
Description == call.ret["minecraft:geometry"][1].description

\* the texture size the spec gives the document of the convert call: the
\* atlas total size, else the document's texture_size, else 16x16
ExpectedTextureSize ==
  IF spritesheetData # NULL /\ Has(spritesheetData, "meta")
    THEN <<spritesheetData.meta.size.w, spritesheetData.meta.size.h>>
  ELSE IF Has(call.javaModel, "texture_size") THEN call.javaModel.texture_size
  ELSE <<16, 16>>

\* C14: for every convert call the output's texture_width/texture_height are
\* the atlas total size if the converter holds atlas data, otherwise the
\* document's texture_size if it declares one, otherwise 16x16; for each call
\* individually, also when the instance has converted other documents before.
C14_TextureSize ==
  Returned("convert") =>
    <<Description.texture_width, Description.texture_height>> = ExpectedTextureSize

-----------------------------------------------------------------------------
(* Errors *)

\* C16: convert raises an error only for a document without elements: for
\* every document with at least one element, whatever its texture table
\* (present, absent, lacking referenced keys), its rotations and the atlas
\* state, convert returns a target document and does not throw.
C16_OnlyInvalidInput ==
  (/\ call.op = "convert"
   /\ Has(call.javaModel, "elements")
   /\ Len(call.javaModel.elements) >= 1) =>
    /\ ~IsThrow(call.ret)
    /\ DOMAIN call.ret = {"format_version", "minecraft:geometry"}

\* the faces of the element of the convertElement call
FacesOf == IF Has(call.element, "faces") THEN call.element.faces ELSE <<>>

\* the faces whose texture key is absent from the document's texture table
UnresolvedFaces ==
  {f \in DOMAIN FacesOf :
     /\ Has(FacesOf[f], "texture")
     /\ substring(FacesOf[f].texture, 1) \notin DOMAIN call.javaModel.textures}

\* the faces with a uv and a texture key that the table maps to a texture
ResolvedFaces ==
  {f \in DOMAIN FacesOf :
     /\ Has(FacesOf[f], "uv")
     /\ Has(FacesOf[f], "texture")
     /\ substring(FacesOf[f].texture, 1) \in DOMAIN call.javaModel.textures
     /\ call.javaModel.textures[substring(FacesOf[f].texture, 1)] # ""}

\* the faces of the uv map of the returned cube
MappedFaces == IF Has(call.ret, "uv") THEN DOMAIN call.ret.uv ELSE {}

\* C17: a face whose texture key is absent from the document's texture table
\* is omitted from the cube's uv map, the other faces of the element are
\* still mapped and the conversion does not fail; when no face of the element
\* resolves, the cube has no uv field at all.
C17_UnresolvedTexture ==
  (call.op = "convertElement" /\ Has(call.javaModel, "textures")) =>
    /\ ~IsThrow(call.ret)
    /\ MappedFaces \cap UnresolvedFaces = {}
    /\ MappedFaces = ResolvedFaces
    /\ \A f \in MappedFaces : DOMAIN call.ret.uv[f] = {"uv", "uv_size"}
    /\ ResolvedFaces = {} <=> ~Has(call.ret, "uv")

\* one face resolves and the other names the key "9", which the table lacks
C17_Witness ==
  /\ Returned("convertElement")
  /\ Has(call.javaModel, "textures")
  /\ UnresolvedFaces = {"up"}
  /\ Has(FacesOf["up"], "uv")
  /\ ResolvedFaces = {"north"}
  /\ DOMAIN call.ret.uv = {"north"}

\* C20: the core transform has no shared mutable state: whatever convert
\* calls the instance served before, failed or not, each call returns what a
\* fresh instance with the same atlas returns for the same document and name.
C20_NoSharedState ==
  call.op = "convert" =>
    call.ret = convert(spritesheetData, 16, 16, call.javaModel, call.modelName)

-----------------------------------------------------------------------------
(* Batch driver *)

\* the document has no element: 'elements' is missing or empty
WithoutElements(doc) == ~Has(doc, "elements") \/ doc.elements = <<>>

\* the content of the model file at a path <<namespace, file>>
FileAt(path) == modelsByNamespace[path[1]][path[2]]

\* the paths of all model files of the pack
ModelPaths ==
  {path \in (1..Len(modelsByNamespace)) \X (1..MaxFiles + 1) :
     path[2] <= Len(modelsByNamespace[path[1]])}

\* what main() printed about single model files, and about whole namespaces
FileLines == {i \in DOMAIN console : Has(console[i], "path")}
NamespaceLines == {i \in DOMAIN console : Has(console[i], "skipped")}

\* C15: converting a document whose 'elements' is missing or empty fails with
\* an error of its own and produces no output document: convert returns
\* nothing, and the batch driver writes no output file for that document.
C15_InvalidInput ==
  /\ (call.op = "convert" /\ WithoutElements(call.javaModel)) =>
       call.ret = [throw |-> "No elements found in model"]
  /\ (call.op = "convert" /\ ~WithoutElements(call.javaModel) /\ IsThrow(call.ret)) =>
       call.ret.throw # "No elements found in model"
  /\ \A path \in DOMAIN outputFiles : ~WithoutElements(FileAt(path))
  /\ \A i \in FileLines :
       WithoutElements(FileAt(console[i].path)) => console[i].outcome # "success"

\* main() has finished a pack in which a document with an empty element list
\* stands before one that was converted: only the second has an output file
C15_Witness ==
  /\ pc = "done"
  /\ Len(modelsByNamespace) = 1
  /\ Len(modelsByNamespace[1]) = 2
  /\ Has(modelsByNamespace[1][1], "elements")
  /\ modelsByNamespace[1][1].elements = <<>>
  /\ DOMAIN outputFiles = {<<1, 2>>}
  /\ skippedCount = 1

\* C18: when the Atlas Service fails or yields no data for a namespace (the
\* packer throws, the atlas files are not created, no texture is found), the
\* driver still converts every model of that namespace that has elements and
\* writes its output: an atlas failure leaves no model unconverted.
C18_AtlasFailure ==
  pc = "done" =>
    \A i \in NamespaceLines : \A path \in ModelPaths :
      (path[1] = console[i].namespace /\ ~WithoutElements(FileAt(path))) =>
        path \in DOMAIN outputFiles

\* the failures main() printed, in order
FailedLines == {i \in FileLines : console[i].outcome = "failed"}

\* every failure is counted and listed, in the order it happened
FailuresRecorded ==
  /\ failCount = Cardinality(FailedLines)
  /\ Len(failedModels) = Cardinality(FailedLines)
  /\ \A k \in 1..Len(failedModels) :
       /\ failedModels[k].path = console[Sorted(FailedLines)[k]].path
       /\ failedModels[k].error = console[Sorted(FailedLines)[k]].error
  /\ \A i \in FileLines :
       FileAt(console[i].path) = Unreadable => console[i].outcome = "failed"

\* the model files handled so far in a namespace
HandledIn(namespace) ==
  {console[i].path[2] : i \in {j \in FileLines : console[j].path[1] = namespace}}

\* no failure ends the loop over the files of a namespace: inside the loop
\* every file before the current one was handled, and a namespace that main()
\* has left was skipped as a whole or had every file handled
LoopGoesOn ==
  /\ pc = "files" => HandledIn(nsIndex) = 1..(fileIndex - 1)
  /\ \A n \in 1..Len(modelsByNamespace) :
       (n < nsIndex /\ pc # "scan") =>
         \/ \E i \in NamespaceLines : console[i].namespace = n
         \/ HandledIn(n) = 1..Len(modelsByNamespace[n])

-----------------------------------------------------------------------------
(* The atlas as a snapshot *)

\* a method of the class is called
MethodCalled == pc = "off" /\ call = Idle /\ call' # Idle

\* main() gives a converter its atlas: only on entering the loop over the
\* files of a namespace, before any file of that namespace is handled
AssignedBeforeLoop ==
  /\ pc = "spritesheet"
  /\ pc' = "files"
  /\ fileIndex' = 1
  /\ HandledIn(nsIndex) = {}

\* C21: the atlas is a read-only snapshot: in main() the converter's
\* spritesheetData is assigned once per namespace, after the atlas is built
\* and before the first convert of that namespace, and no call to convert,
\* groupCubesByRotation, convertElement or calculateUV changes
\* spritesheetData or a frame in it.
C21_AtlasSnapshot ==
  [][/\ MethodCalled => spritesheetData' = spritesheetData
     /\ (pc = "files" /\ pc' = "files") => spritesheetData' = spritesheetData
     /\ (pc # "off" /\ spritesheetData' # spritesheetData) => AssignedBeforeLoop]_vars

\* main() has converted a model with the atlas it read for the namespace
C21_Witness ==
  /\ pc = "files"
  /\ fileIndex = 2
  /\ successCount = 1
  /\ spritesheetData # NULL
  /\ Has(spritesheetData, "frames")
  /\ Has(outputFiles[<<nsIndex, 1>>]["minecraft:geometry"][1].bones[4].cubes[1], "uv")

-----------------------------------------------------------------------------
(* Pivot and rotation of a cube *)

\* a cube with neither a pivot nor a rotation
IsBare(cube) == ~Has(cube, "pivot") /\ ~Has(cube, "rotation")

\* the cubes of a bone, none for a bone without a cubes field
CubesOf(bone) == IF Has(bone, "cubes") THEN bone.cubes ELSE <<>>

AllBare(cubes) == \A k \in 1..Len(cubes) : IsBare(cubes[k])

\* C22: every cube convertElement produces has pivot and rotation both
\* present or both absent, both present exactly when the source element has
\* a rotation; and every cube emitted inside a bone of the output document
\* (and in a group or the no-rotation list of the grouper) has neither.
C22_PivotAndRotation ==
  /\ Returned("convertElement") =>
       /\ Has(call.ret, "pivot") <=> Has(call.ret, "rotation")
       /\ Has(call.ret, "pivot") <=> Has(call.element, "rotation")
  /\ Returned("groupCubesByRotation") =>
       /\ AllBare(call.ret.noPivotCubes)
       /\ \A g \in 1..Len(call.ret.groups) : AllBare(call.ret.groups[g].cubes)
  /\ Returned("convert") =>
       \A b \in 1..Len(Bones) : AllBare(CubesOf(Bones[b]))

\* a converted document with a plain cube in the fourth bone and a cube in a
\* rotation bone
C22_Witness ==
  /\ Returned("convert")
  /\ Len(Bones) = 5
  /\ Len(Bones[4].cubes) = 1
  /\ Len(Bones[5].cubes) = 2
  /\ Has(call.javaModel.elements[1], "rotation")
  /\ IsBare(Bones[5].cubes[1])

-----------------------------------------------------------------------------
(* The rotation vector *)

\* the components of a rotation vector that are not zero
NonZero(rotation) == {k \in 1..3 : rotation[k] # 0}

\* the index of an axis of the source format, 0 for any other value
AxisIndex(axis) ==
  IF axis = "x" THEN 1 ELSE IF axis = "y" THEN 2 ELSE IF axis = "z" THEN 3 ELSE 0

\* the components a source rotation leaves non-zero: its axis, when it is an
\* axis and the angle is not zero
TurnedAxes(r) == {k \in 1..3 : k = AxisIndex(r.axis) /\ r.angle # 0}

\* C23, as claimed: whenever a converted cube or a rot_<n> bone carries a
\* rotation vector, exactly one of its three components is non-zero, for
\* every source rotation convertElement accepts.
C23_ExactlyOneNonZero ==
  /\ (Returned("convertElement") /\ Has(call.ret, "rotation")) =>
       Cardinality(NonZero(call.ret.rotation)) = 1
  /\ Returned("convert") =>
       \A b \in 5..Len(Bones) : Cardinality(NonZero(Bones[b].rotation)) = 1

\* C23, amended: at most one component of a rotation vector is non-zero: the
\* one of the source axis, and it is non-zero exactly when the axis is x, y
\* or z and the angle is not zero.
C23_AtMostOneNonZero ==
  /\ (Returned("convertElement") /\ Has(call.ret, "rotation")) =>
       /\ Cardinality(NonZero(call.ret.rotation)) <= 1
       /\ NonZero(call.ret.rotation) = TurnedAxes(call.element.rotation)
  /\ Returned("convert") =>
       \A b \in 5..Len(Bones) : Cardinality(NonZero(Bones[b].rotation)) <= 1

\* a cube turned about z by 30 degrees, and nothing about x and y
C23_Witness ==
  /\ Returned("convertElement")
  /\ Has(call.ret, "rotation")
  /\ call.element.rotation.axis = "z"
  /\ call.element.rotation.angle = Num(30)
  /\ NonZero(call.ret.rotation) = {3}

\* the convertElement call is on an element whose rotation axis is none of
\* x, y, z
MalformedRotation ==
  /\ call.op = "convertElement"
  /\ Has(call.element, "rotation")
  /\ AxisIndex(call.element.rotation.axis) = 0

\* C24: when an element has a rotation whose axis is not one of 'x', 'y',
\* 'z', convertElement does not fail: the rotation vector is [0,0,0], and the
\* pivot is still computed from the rotation origin.
C24_MalformedRotation ==
  MalformedRotation =>
    /\ ~IsThrow(call.ret)
    /\ call.ret.rotation = <<0, 0, 0>>
    /\ call.ret.pivot = TargetPivot(call.element.rotation)

\* an element turned by 45 degrees about "w", its origin off the grid of
\* four decimals
C24_Witness ==
  /\ MalformedRotation
  /\ call.element.rotation.angle = Num(45)
  /\ call.element.rotation.origin = <<Num(8) + 1, Num(8), Num(8)>>
  /\ call.ret.rotation = <<0, 0, 0>>
  /\ call.ret.pivot = Vec(0, 8, 0)

-----------------------------------------------------------------------------
(* Rounding of the output *)

\* a number that is its own round4: a multiple of 0.0001
IsRounded(v) == Round4(v) = v

AllRounded(vector) == \A k \in 1..Len(vector) : IsRounded(vector[k])

\* the vectors of the fields of a cube or bone that hold coordinates
VectorsOf(obj) ==
  {obj[f] : f \in DOMAIN obj \cap {"origin", "size", "pivot", "rotation"}}
    \cup (IF Has(obj, "uv")
            THEN UNION {{obj.uv[face].uv, obj.uv[face].uv_size} : face \in DOMAIN obj.uv}
            ELSE {})

IsRoundedObject(obj) == \A vector \in VectorsOf(obj) : AllRounded(vector)

\* C25: round4 is applied to every numeric coordinate emitted: every
\* component of origin, size, pivot, rotation, uv and uv_size of every cube
\* and rot_<n> bone is a multiple of 0.0001, in atlas mode and in fallback
\* mode alike.
C25_RoundedOutput ==
  /\ Returned("convertElement") => IsRoundedObject(call.ret)
  /\ Returned("convert") =>
       \A b \in 1..Len(Bones) :
         /\ IsRoundedObject(Bones[b])
         /\ \A k \in 1..Len(CubesOf(Bones[b])) : IsRoundedObject(CubesOf(Bones[b])[k])

-----------------------------------------------------------------------------
(* A failed convert *)

\* the step is a convert call that throws 'No elements found in model'
ConvertRefused ==
  /\ call = Idle
  /\ call'.op = "convert"
  /\ call'.ret = Throw("No elements found in model")

\* C26: a convert call that fails with 'No elements found in model' leaves
\* the state of the instance (textureWidth, textureHeight, spritesheetData)
\* exactly as it was before the call.
C26_FailedConvertKeepsState ==
  [][ConvertRefused =>
       /\ textureWidth' = textureWidth
       /\ textureHeight' = textureHeight
       /\ spritesheetData' = spritesheetData]_vars

-----------------------------------------------------------------------------
(* Batch accounting *)

\* the number of model files in the first n namespaces
RECURSIVE FilesUpTo(_)
FilesUpTo(n) == IF n = 0 THEN 0 ELSE Len(modelsByNamespace[n]) + FilesUpTo(n - 1)

\* the model files main() is through with: those of the namespaces before
\* the current one, and inside the loop those before the current file
FilesHandled ==
  IF pc = "scan" \/ pc = "exit" THEN 0
  ELSE FilesUpTo(nsIndex - 1) + (IF pc = "files" THEN fileIndex - 1 ELSE 0)

\* the lines main() printed with a given outcome for a single model file
LinesWith(outcome) == {i \in FileLines : console[i].outcome = outcome}

\* the model files of the namespaces main() skipped as a whole
RECURSIVE FilesSkippedIn(_)
FilesSkippedIn(lines) ==
  IF lines = {} THEN 0
  ELSE LET i == CHOOSE j \in lines : TRUE
       IN  Len(modelsByNamespace[console[i].namespace]) + FilesSkippedIn(lines \ {i})

\* what main() printed about a model file: its own line, or the line of its
\* namespace
LinesAbout(path) ==
  {i \in FileLines : console[i].path = path}
    \cup {i \in NamespaceLines : console[i].namespace = path[1]}

\* C27: every discovered model file is counted exactly once, as successful,
\* failed or skipped; at every point of the run successCount + failCount +
\* skippedCount is the number of model files handled so far, and when main()
\* prints its summary the sum is the number of model files found.
C27_BatchAccounting ==
  /\ successCount + failCount + skippedCount = FilesHandled
  /\ successCount = Cardinality(LinesWith("success"))
  /\ failCount = Cardinality(LinesWith("failed"))
  /\ skippedCount = Cardinality(LinesWith("skipped")) + FilesSkippedIn(NamespaceLines)
  /\ pc = "done" =>
       /\ successCount + failCount + skippedCount = FilesUpTo(Len(modelsByNamespace))
       /\ \A path \in ModelPaths : Cardinality(LinesAbout(path)) = 1

\* the summary of a pack of two namespaces: the first was skipped as a whole,
\* the second had a model converted
C27_Witness ==
  /\ pc = "done"
  /\ Len(modelsByNamespace) = 2
  /\ NamespaceLines # {}
  /\ skippedCount = Len(modelsByNamespace[1])
  /\ successCount = 1
  /\ successCount + failCount + skippedCount = 2

-----------------------------------------------------------------------------
(* The writings of the element transform agree *)

\* the origin, size, pivot and rotation of a cube
Geometry(cube) ==
  [f \in DOMAIN cube \cap {"origin", "size", "pivot", "rotation"} |-> cube[f]]

\* C28: the element transforms documented as the same formula agree: for
\* every source element, convertElement of converter.js,
\* convertElementCorrected of auto-fix.js, convertElement of part_001 and the
\* 'current' entry of FORMULAS applied by convertWithFormula produce the same
\* origin, size, pivot and rotation.
C28_VariantsAgree ==
  call.op = "each" =>
    /\ Geometry(call.corrected) = Geometry(call.converter)
    /\ Geometry(call.part001) = Geometry(call.converter)
    /\ Geometry(call.formula) = Geometry(call.converter)

\* an element with corners and a rotation origin off the grid of four
\* decimals, turned about x
C28_Witness ==
  /\ call.op = "each"
  /\ call.element.from = <<Num(4) + 1, Half(2), Num(12) + (Sub \div 2)>>
  /\ call.element.to = <<Num(-8), Num(24), Half(7) + (Sub - 1)>>
  /\ Has(call.element, "rotation")
  /\ call.element.rotation.origin = <<Num(8) + 1, Num(8), Num(8)>>
  /\ call.element.rotation.axis = "x"
  /\ call.element.rotation.angle = Num(45)
  /\ call.formula.rotation = <<Num(-45), 0, 0>>
  /\ call.formula.pivot = Vec(0, 8, 0)

-----------------------------------------------------------------------------
(* Temporary files *)

\* main() is through with a namespace: the variables about the texture files
\* are those of the namespace it has just left
NamespaceEnded == (pc = "namespace" \/ pc = "done") /\ nsIndex > 1

\* the cropped copies the run made are gone from the disk
CroppedCopiesDeleted == createdFiles \cap textureFiles = {}

\* the textures handed to the packer that the run did not make are still on
\* the disk
OwnFilesKept == (processedPaths \ createdFiles) \subseteq textureFiles

\* C29: every '_cropped.png' file the crop step created for a namespace has
\* been deleted by the time the processing of that namespace ends, whether
\* the spritesheet generation succeeded or failed, and no file that the run
\* did not create is deleted.
C29_TempFileHygiene ==
  NamespaceEnded => (CroppedCopiesDeleted /\ OwnFilesKept)

-----------------------------------------------------------------------------
(* UV Remapper, the frame of another texture *)

\* a path without its '_cropped.png' or '.png' ending
WithoutEnding(p) ==
  IF endsWith(p, "_cropped.png") THEN SubSeq(p, 1, Len(p) - 12)
  ELSE IF endsWith(p, ".png") THEN SubSeq(p, 1, Len(p) - 4)
  ELSE p

\* the index of the frame the lookup of the calculateUV call stops at, 0
\* when it finds none
UsedFrame ==
  findTextureData(spritesheetData.frames,
                  call.javaModel.textures[substring(call.textureKey, 1)])

\* the frame is one of the texture: its path ends with the texture's path at
\* the start of a path segment, or its filename is the texture's filename
IsFrameOf(framePath, texturePath) ==
  \/ framePath = texturePath
  \/ endsWith(framePath, "/" \o texturePath)
  \/ lastSegment(framePath) = lastSegment(texturePath)

\* C30: the atlas lookup never returns another texture's frame: whenever
\* calculateUV uses a frame for a texture reference, the frame's path
\* (separators normalised, '.png' or '_cropped.png' removed) ends with the
\* texture's path on a path-segment boundary, or its filename equals the
\* texture's filename; a texture whose name is only a substring of another
\* frame's filename is not matched to it.
C30_OwnFrameOnly ==
  (LooksUp /\ UsedFrame # 0) =>
    IsFrameOf(WithoutEnding(FramePath(UsedFrame)), LookedUpPath)

====
